---- MODULE Spec2Model ----
(***************************************************************************)
(* A model of YoutubeScraper (src/youtube_scraper.py): the playlist ->     *)
(* transcript -> cache -> HTML pipeline, its flat-file JSON cache and the  *)
(* two external collaborators (the listing API and the transcript API).    *)
(***************************************************************************)
EXTENDS Integers, Sequences, FiniteSets, TLC

(***************************************************************************)
(* Bounds of the model.                                                    *)
(***************************************************************************)
\* longest playlist the listing API returns
MaxPlaylist == 2

(***************************************************************************)
(* Python values, tagged by their type.  A float is kept in tenths of a    *)
(* unit (75.9 is <<"float", 759>>), an int as itself.                      *)
(***************************************************************************)
PyNone == <<"NoneType">>
PyStr(s) == <<"str", s>>
PyInt(n) == <<"int", n>>
PyFloat(tenths) == <<"float", tenths>>
PyList(elems) == <<"list", elems>>
\* a dict is its items in insertion order, each <<key, value>>
PyDict(items) == <<"dict", items>>

\* bool(v): the truth value Python's `if v` / `not v` tests
Truthy(v) ==
    CASE v[1] = "NoneType" -> FALSE
      [] v[1] = "str"      -> v[2] # ""
      [] v[1] = "int"      -> v[2] # 0
      [] v[1] = "float"    -> v[2] # 0
      [] v[1] = "list"     -> Len(v[2]) > 0
      [] v[1] = "dict"     -> Len(v[2]) > 0
      [] OTHER             -> TRUE

(***************************************************************************)
(* Outcomes of a call: a returned value or a raised exception.             *)
(***************************************************************************)
Return(v) == <<"return", v>>
Raise(e) == <<"raise", e>>
Returned(out) == out[1] = "return"
Raised(out) == out[1] = "raise"

(***************************************************************************)
(* JSON documents, as json.dump writes them and json.load reads them.  A   *)
(* number literal keeps whether it was written with a fraction ("75.0")    *)
(* or without ("75"): that decides the type json.load gives it.            *)
(***************************************************************************)
JNull == <<"null">>
JNumber(tenths, frac) == <<"number", tenths, frac>>
JString(s) == <<"string", s>>
JArray(elems) == <<"array", elems>>
JObject(members) == <<"object", members>>

RECURSIVE JsonDumpTruncating(_)
\* a serializer that writes every float as a whole number
JsonDumpTruncating(v) ==
    CASE v[1] = "NoneType" -> JNull
      [] v[1] = "str"      -> JString(v[2])
      [] v[1] = "int"      -> JNumber(10 * v[2], FALSE)
      [] v[1] = "float"    -> JNumber(10 * (v[2] \div 10), FALSE)
      [] v[1] = "list"     ->
            JArray([i \in 1..Len(v[2]) |-> JsonDumpTruncating(v[2][i])])
      [] v[1] = "dict"     ->
            JObject([i \in 1..Len(v[2]) |->
                        <<v[2][i][1], JsonDumpTruncating(v[2][i][2])>>])

RECURSIVE JsonDump(_)
\* json.dump(d, file): None -> null, str -> string, int -> number without a
\* fraction, float -> number with one (repr), list -> array, dict -> object
JsonDump(v) ==
    CASE v[1] = "NoneType" -> JNull
      [] v[1] = "str"      -> JString(v[2])
      [] v[1] = "int"      -> JNumber(10 * v[2], FALSE)
      [] v[1] = "float"    -> JNumber(v[2], TRUE)
      [] v[1] = "list"     -> JArray([i \in 1..Len(v[2]) |-> JsonDump(v[2][i])])
      [] v[1] = "dict"     ->
            JObject([i \in 1..Len(v[2]) |-> <<v[2][i][1], JsonDump(v[2][i][2])>>])

RECURSIVE JsonLoad(_)
\* json.load(file): null -> None, string -> str, number -> int when written
\* without a fraction and float otherwise, array -> list, object -> dict
JsonLoad(j) ==
    CASE j[1] = "null"   -> PyNone
      [] j[1] = "string" -> PyStr(j[2])
      [] j[1] = "number" -> IF j[3] THEN PyFloat(j[2]) ELSE PyInt(j[2] \div 10)
      [] j[1] = "array"  -> PyList([i \in 1..Len(j[2]) |-> JsonLoad(j[2][i])])
      [] j[1] = "object" ->
            PyDict([i \in 1..Len(j[2]) |-> <<j[2][i][1], JsonLoad(j[2][i][2])>>])

(***************************************************************************)
(* The world outside the scraper: the videos, what the listing API can     *)
(* return, what the transcript API can answer, and the file system.        *)
(***************************************************************************)
VideoIds == {"v1", "v2"}

\* PlaylistItem: snippet.resourceId.videoId and snippet.title
PlaylistItems ==
    { [videoId |-> "v1", title |-> "Intro"],
      [videoId |-> "v1", title |-> "Intro (HD)"],
      [videoId |-> "v2", title |-> "Talk"] }

\* one caption line as the transcript API gives it
CaptionLine(text, start, duration) ==
    PyDict(<< <<"text", PyStr(text)>>,
              <<"start", PyFloat(start)>>,
              <<"duration", PyFloat(duration)>> >>)

\* the live transcript: captions at 75.9 s and 78.0 s
LiveTranscript ==
    PyList(<< CaptionLine("hello", 759, 21), CaptionLine("world", 780, 30) >>)

\* the transcript of an earlier upload: one caption at 0.0 s
OldTranscript == PyList(<< CaptionLine("old", 0, 15) >>)

\* the answers of YouTubeTranscriptApi.get_transcript(video_id)
TranscriptFailures == {"TranscriptsDisabled", "NoTranscriptFound", "VideoUnavailable"}
TranscriptResponses ==
    {Return(LiveTranscript)} \cup {Raise(e) : e \in TranscriptFailures}
Tubes == [VideoIds -> TranscriptResponses]

RECURSIVE SeqsUpTo(_, _)
\* the sequences over S of length at most n
SeqsUpTo(S, n) ==
    IF n = 0 THEN {<<>>}
    ELSE LET shorter == SeqsUpTo(S, n - 1)
         IN  shorter \cup {Append(q, x) : q \in {r \in shorter : Len(r) = n - 1}, x \in S}

\* the answers of Api.get_playlist_items(playlist_id, count=None).items
ListingResponses ==
    {Return(items) : items \in SeqsUpTo(PlaylistItems, MaxPlaylist)}
        \cup {Raise("PyYouTubeException")}

\* the values cache_dir is constructed with
CacheDirName == "./subtitles"
CacheDirs == {PyNone, PyStr(""), PyStr(CacheDirName)}

\* an info dictionary that keeps the title where the video id belongs
VideoRecordKeyedByTitle(video_id, video_title, transcript) ==
    PyDict(<< <<"video_id", PyStr(video_title)>>,
              <<"video_title", PyStr(video_title)>>,
              <<"transcript", transcript>> >>)

\* the info dictionary built for a video (lines 177-182)
VideoRecord(video_id, video_title, transcript) ==
    PyDict(<< <<"video_id", PyStr(video_id)>>,
              <<"video_title", PyStr(video_title)>>,
              <<"transcript", transcript>> >>)

\* the title an earlier run cached, before the video was renamed
OldTitle == "Intro (draft)"

(***************************************************************************)
(* Strings and paths.                                                      *)
(***************************************************************************)
RECURSIVE LastSlash(_, _)
\* the position of the last "/" of p at or before i, 0 when there is none
LastSlash(p, i) ==
    IF i = 0 THEN 0
    ELSE IF SubSeq(p, i, i) = "/" THEN i
    ELSE LastSlash(p, i - 1)

\* os.path.dirname
OsPathDirname(p) ==
    LET k == LastSlash(p, Len(p))
    IN  IF k <= 1 THEN SubSeq(p, 1, k) ELSE SubSeq(p, 1, k - 1)

\* os.path.join(a, b) for a relative b; a TypeError when a is not a str
OsPathJoin(a, b) ==
    IF a[1] # "str" \/ b[1] # "str" THEN Raise("TypeError")
    ELSE IF a[2] = "" THEN Return(b)
    ELSE IF SubSeq(a[2], Len(a[2]), Len(a[2])) = "/" THEN Return(PyStr(a[2] \o b[2]))
    ELSE Return(PyStr(a[2] \o "/" \o b[2]))

\* os.path.isfile
IsFile(fs, path) == path \in DOMAIN fs

\* the file system after open(path, 'w') and a complete write of content
FsWrite(fs, path, content) ==
    [q \in (DOMAIN fs) \cup {path} |-> IF q = path THEN content ELSE fs[q]]

\* a file just opened with 'w': no bytes in it
Truncated == <<"truncated">>

\* a file holding the text of doc followed by what an older, longer text had
\* after it: len bytes in all
Garbled(doc, len) == <<"garbled", doc, len>>

\* whether the bytes of a file are one JSON document
IsJsonText(content) == content[1] \notin {"truncated", "garbled"}

RECURSIVE JsonTextLen(_)
RECURSIVE ElementsLen(_, _)
RECURSIVE MembersLen(_, _)
\* the number of characters json.dump writes for the items of an array from
\* the i-th on, ", " between two items
ElementsLen(elems, i) ==
    IF i > Len(elems) THEN 0
    ELSE JsonTextLen(elems[i]) + (IF i > 1 THEN 2 ELSE 0) + ElementsLen(elems, i + 1)

\* the number of characters json.dump writes for the members of an object from
\* the i-th on: the quoted key, ": ", the value, ", " between two members
MembersLen(members, i) ==
    IF i > Len(members) THEN 0
    ELSE Len(members[i][1]) + 4 + JsonTextLen(members[i][2]) + (IF i > 1 THEN 2 ELSE 0)
             + MembersLen(members, i + 1)

\* the number of characters json.dump writes for a document
JsonTextLen(j) ==
    CASE j[1] = "null"   -> 4
      [] j[1] = "string" -> Len(j[2]) + 2
      [] j[1] = "number" ->
            IF j[3] THEN Len(ToString(j[2] \div 10)) + 2 ELSE Len(ToString(j[2] \div 10))
      [] j[1] = "array"  -> 2 + ElementsLen(j[2], 1)
      [] j[1] = "object" -> 2 + MembersLen(j[2], 1)

\* the number of bytes of a file
ContentLen(content) ==
    CASE content[1] = "truncated" -> 0
      [] content[1] = "garbled"   -> content[3]
      [] OTHER                    -> JsonTextLen(content)

\* the bytes of a file after the text of doc is written at offset 0 through a
\* handle that truncated the file when it was opened: bytes another writer put
\* beyond the end of the text since then stay
Overlay(content, doc) ==
    IF JsonTextLen(doc) >= ContentLen(content) THEN doc
    ELSE Garbled(doc, ContentLen(content))

\* the file system after open(path, 'w'): the file exists and is empty
FsTruncate(fs, path) == FsWrite(fs, path, Truncated)

\* a dump whose text never reaches the file
FsOverlayWritesNothing(fs, path, doc) == fs

\* the file system after json.dump(d, file) and the close of a handle opened
\* with 'w' earlier
FsOverlay(fs, path, doc) ==
    FsWrite(fs, path, IF IsFile(fs, path) THEN Overlay(fs[path], doc) ELSE doc)

\* what a call did and gave: its outcome, the file system it leaves, and the
\* file and collaborator accesses it made, in order
Effect(out, fs, trace) == [out |-> out, fs |-> fs, trace |-> trace]

(***************************************************************************)
(* The methods of YoutubeScraper, as functions of the scraper's cache_dir  *)
(* and of the world they act on.                                           *)
(***************************************************************************)
\* a check that accepts every cache_dir
check_cache_dir_never_raises(cache_dir) == Return(PyNone)

\* check_cache_dir_defined: raises ValueError unless cache_dir is truthy
check_cache_dir_defined(cache_dir) ==
    IF ~Truthy(cache_dir) THEN Raise("ValueError") ELSE Return(PyNone)

\* a path that leaves the extension out
cache_file_dir_without_ext(cache_dir, file_name, ext) ==
    LET chk == check_cache_dir_defined(cache_dir)
    IN  IF Raised(chk) THEN chk
        ELSE OsPathJoin(cache_dir, PyStr(file_name))

\* cache_file_dir(file_name, ext): the path of a cache file, or the error
cache_file_dir(cache_dir, file_name, ext) ==
    LET chk == check_cache_dir_defined(cache_dir)
    IN  IF Raised(chk) THEN chk
        ELSE OsPathJoin(cache_dir, PyStr(file_name \o ext))

\* read_json_from_cache(file_name): the parsed file, None when there is none
read_json_from_cache(cache_dir, fs, file_name) ==
    LET Open(chk, p) ==
            IF Raised(chk) THEN Effect(chk, fs, <<>>)
            ELSE IF Raised(p) THEN Effect(p, fs, <<>>)
            ELSE IF ~IsFile(fs, p[2][2])
                 THEN Effect(Return(PyNone), fs, << <<"isfile", p[2][2], FALSE>> >>)
            ELSE IF ~IsJsonText(fs[p[2][2]])
                 THEN Effect(Raise("JSONDecodeError"), fs,
                             << <<"isfile", p[2][2], TRUE>>, <<"read", p[2][2], fs[p[2][2]]>> >>)
            ELSE Effect(Return(JsonLoad(fs[p[2][2]])), fs,
                        << <<"isfile", p[2][2], TRUE>>, <<"read", p[2][2], fs[p[2][2]]>> >>)
    IN  Open(check_cache_dir_defined(cache_dir),
             cache_file_dir(cache_dir, file_name, ".json"))

\* a write that goes through whether the directory is there or not
write_json_to_cache_making_dir(cache_dir, fs, dirs, d, file_name) ==
    LET Open(chk, p) ==
            IF Raised(chk) THEN Effect(chk, fs, <<>>)
            ELSE IF Raised(p) THEN Effect(p, fs, <<>>)
            ELSE Effect(Return(PyNone), FsWrite(fs, p[2][2], JsonDump(d)),
                        << <<"open_w", p[2][2], TRUE>>,
                           <<"write", p[2][2], JsonDump(d)>> >>)
    IN  Open(check_cache_dir_defined(cache_dir),
             cache_file_dir(cache_dir, file_name, ".json"))

\* write_json_to_cache(d, file_name): open(path, 'w') fails when the directory
\* is missing, else the file holds json.dump(d)
write_json_to_cache(cache_dir, fs, dirs, d, file_name) ==
    LET Open(chk, p) ==
            IF Raised(chk) THEN Effect(chk, fs, <<>>)
            ELSE IF Raised(p) THEN Effect(p, fs, <<>>)
            ELSE IF OsPathDirname(p[2][2]) \notin dirs
                 THEN Effect(Raise("FileNotFoundError"), fs,
                             << <<"open_w", p[2][2], FALSE>> >>)
                 ELSE Effect(Return(PyNone), FsWrite(fs, p[2][2], JsonDump(d)),
                             << <<"open_w", p[2][2], TRUE>>,
                                <<"write", p[2][2], JsonDump(d)>> >>)
    IN  Open(check_cache_dir_defined(cache_dir),
             cache_file_dir(cache_dir, file_name, ".json"))

\* a fetch that turns every failure of the collaborator into an empty list
get_transcript_catch_all(tube, video_id) ==
    LET Caught(answer) == IF Raised(answer) THEN Return(PyList(<<>>)) ELSE answer
    IN  Effect(Caught(tube[video_id]), <<>>,
               << <<"get_transcript", video_id, tube[video_id]>> >>)

\* get_transcript(video_id): the collaborator's answer, TranscriptsDisabled
\* caught and turned into an empty list, every other exception let through
get_transcript(tube, video_id) ==
    LET Caught(answer) ==
            IF Raised(answer) /\ answer[2] = "TranscriptsDisabled"
            THEN Return(PyList(<<>>))
            ELSE answer
    IN  Effect(Caught(tube[video_id]), <<>>,
               << <<"get_transcript", video_id, tube[video_id]>> >>)

\* a build that never writes what it fetched to the cache
transcript_dict_without_write(cache_dir, fs, dirs, tube, playlist_item) ==
    LET file_name == playlist_item.videoId
        Fetched(local_json, transcript) ==
            IF Raised(transcript.out)
            THEN Effect(transcript.out, fs, local_json.trace \o transcript.trace)
            ELSE Effect(Return(VideoRecord(file_name, playlist_item.title,
                                           transcript.out[2])),
                        fs, local_json.trace \o transcript.trace)
        Looked(local_json) ==
            IF Raised(local_json.out) THEN local_json
            ELSE IF Truthy(local_json.out[2]) THEN local_json
            ELSE Fetched(local_json, get_transcript(tube, file_name))
    IN  Looked(read_json_from_cache(cache_dir, fs, file_name))

\* transcript_dict_from_playlist_item(playlist_item): the cached dictionary when
\* the read gives a truthy one (174-175), else the dictionary built from the
\* item and its transcript (177-182), written to the cache when cache_dir is
\* truthy (184-185)
transcript_dict_from_playlist_item(cache_dir, fs, dirs, tube, playlist_item) ==
    LET file_name == playlist_item.videoId
        Written(trace, d, written) ==
            IF Raised(written.out)
            THEN Effect(written.out, written.fs, trace \o written.trace)
            ELSE Effect(Return(d), written.fs, trace \o written.trace)
        Built(trace, d) ==
            IF ~Truthy(cache_dir) THEN Effect(Return(d), fs, trace)
            ELSE Written(trace, d, write_json_to_cache(cache_dir, fs, dirs, d, file_name))
        Fetched(local_json, transcript) ==
            IF Raised(transcript.out)
            THEN Effect(transcript.out, fs, local_json.trace \o transcript.trace)
            ELSE Built(local_json.trace \o transcript.trace,
                       VideoRecord(file_name, playlist_item.title, transcript.out[2]))
        Looked(local_json) ==
            IF Raised(local_json.out) THEN local_json
            ELSE IF Truthy(local_json.out[2]) THEN local_json
            ELSE Fetched(local_json, get_transcript(tube, file_name))
    IN  Looked(read_json_from_cache(cache_dir, fs, file_name))

\* playlist_items_from_playlist_id(playlist_id): the listing API's answer
playlist_items_from_playlist_id(listing) ==
    Effect(listing, <<>>, << <<"get_playlist_items", listing>> >>)

RECURSIVE dicts_loop_skipping_failures(_, _, _, _, _, _, _, _)
\* a loop that drops an entry whose build raises and goes on with the next
dicts_loop_skipping_failures(cache_dir, fs, dirs, tube, playlist_items, i, dicts, trace) ==
    LET Step(this_dict) ==
            dicts_loop_skipping_failures(
                cache_dir, this_dict.fs, dirs, tube, playlist_items, i + 1,
                IF Raised(this_dict.out) THEN dicts ELSE Append(dicts, this_dict.out[2]),
                trace \o this_dict.trace)
    IN  IF i > Len(playlist_items) THEN Effect(Return(dicts), fs, trace)
        ELSE Step(transcript_dict_from_playlist_item(
                      cache_dir, fs, dirs, tube, playlist_items[i]))

RECURSIVE dicts_loop(_, _, _, _, _, _, _, _)
\* the for loop of transcript_dicts_from_playlist_id from entry i on: dicts and
\* trace are what the entries before i gave; an entry that raises ends the loop
dicts_loop(cache_dir, fs, dirs, tube, playlist_items, i, dicts, trace) ==
    LET Step(this_dict) ==
            IF Raised(this_dict.out)
            THEN Effect(this_dict.out, this_dict.fs, trace \o this_dict.trace)
            ELSE dicts_loop(cache_dir, this_dict.fs, dirs, tube, playlist_items,
                            i + 1, Append(dicts, this_dict.out[2]),
                            trace \o this_dict.trace)
    IN  IF i > Len(playlist_items) THEN Effect(Return(dicts), fs, trace)
        ELSE Step(transcript_dict_from_playlist_item(
                      cache_dir, fs, dirs, tube, playlist_items[i]))

\* transcript_dicts_from_playlist_id(playlist_id)
transcript_dicts_from_playlist_id(cache_dir, fs, dirs, tube, listing) ==
    LET Listed(playlist_items) ==
            IF Raised(playlist_items.out)
            THEN Effect(playlist_items.out, fs, playlist_items.trace)
            ELSE dicts_loop(cache_dir, fs, dirs, tube, playlist_items.out[2], 1, <<>>,
                            playlist_items.trace)
    IN  Listed(playlist_items_from_playlist_id(listing))

\* d[key]: KeyError when the dict has no such key, TypeError on a non-dict
Subscript(d, key) ==
    IF d[1] # "dict" THEN Raise("TypeError")
    ELSE IF \E i \in 1..Len(d[2]) : d[2][i][1] = key
         THEN Return(d[2][CHOOSE i \in 1..Len(d[2]) : d[2][i][1] = key][2])
         ELSE Raise("KeyError")

\* a value as an f-string prints it
Format(v) ==
    CASE v[1] = "str"      -> v[2]
      [] v[1] = "NoneType" -> "None"
      [] v[1] = "int"      -> ToString(v[2])
      [] v[1] = "float"    -> ToString(v[2] \div 10) \o "." \o ToString(v[2] % 10)
      [] OTHER             -> "<object>"

\* a conversion to whole seconds that rounds to the nearest second
RoundToNearest(x) ==
    IF x[1] = "float" THEN (x[2] + 5) \div 10 ELSE x[2]

\* int(x): a float loses its fraction (towards zero), an int is itself
IntOf(x) ==
    IF x[1] = "float"
    THEN IF x[2] >= 0 THEN x[2] \div 10 ELSE -((-x[2]) \div 10)
    ELSE x[2]

\* transcript_line_to_link(video_id, text, start)
transcript_line_to_link(video_id, text, start) ==
    "<a href=\"https://youtu.be/" \o Format(video_id) \o "?t="
        \o ToString(IntOf(start)) \o "\">" \o Format(text) \o "</a>"

\* lines that put the heading of a video after its links
lines_of_dict_heading_last(transcript_dict) ==
    LET id         == Subscript(transcript_dict, "video_id")
        title      == Subscript(transcript_dict, "video_title")
        transcript == Subscript(transcript_dict, "transcript")
    IN  IF Raised(id) \/ Raised(title) \/ Raised(transcript) THEN Raise("KeyError")
        ELSE Return([j \in 1..Len(transcript[2][2]) |->
                        transcript_line_to_link(
                            id[2],
                            Subscript(transcript[2][2][j], "text")[2],
                            Subscript(transcript[2][2][j], "start")[2])]
                    \o <<"<h1>" \o Format(title[2]) \o "</h1>">>)

\* the lines one info dictionary gives (lines 62-73): its heading, then a link
\* for every line of its transcript
lines_of_dict(transcript_dict) ==
    LET id         == Subscript(transcript_dict, "video_id")
        title      == Subscript(transcript_dict, "video_title")
        transcript == Subscript(transcript_dict, "transcript")
    IN  IF Raised(id) THEN id
        ELSE IF Raised(title) THEN title
        ELSE IF Raised(transcript) THEN transcript
        ELSE IF transcript[2][1] # "list" THEN Raise("TypeError")
        ELSE IF \E j \in 1..Len(transcript[2][2]) :
                    \/ Raised(Subscript(transcript[2][2][j], "text"))
                    \/ Raised(Subscript(transcript[2][2][j], "start"))
             THEN Raise("KeyError")
        ELSE Return(<<"<h1>" \o Format(title[2]) \o "</h1>">> \o
                    [j \in 1..Len(transcript[2][2]) |->
                        transcript_line_to_link(
                            id[2],
                            Subscript(transcript[2][2][j], "text")[2],
                            Subscript(transcript[2][2][j], "start")[2])])

RECURSIVE lines_loop(_, _, _)
\* the for loop of transcript_html_lines_from_playlist_id from dict i on
lines_loop(transcript_dicts, i, lines) ==
    IF i > Len(transcript_dicts) THEN Return(lines)
    ELSE LET these == lines_of_dict(transcript_dicts[i])
         IN  IF Raised(these) THEN these
             ELSE lines_loop(transcript_dicts, i + 1, lines \o these[2])

\* transcript_html_lines_from_playlist_id(playlist_id); dicts keeps the info
\* dictionaries the lines were made from
transcript_html_lines_from_playlist_id(cache_dir, fs, dirs, tube, listing) ==
    LET Rendered(transcript_dicts) ==
            IF Raised(transcript_dicts.out)
            THEN [out |-> transcript_dicts.out, fs |-> transcript_dicts.fs,
                  trace |-> transcript_dicts.trace, dicts |-> <<>>]
            ELSE [out |-> lines_loop(transcript_dicts.out[2], 1, <<>>),
                  fs |-> transcript_dicts.fs, trace |-> transcript_dicts.trace,
                  dicts |-> transcript_dicts.out[2]]
    IN  Rendered(transcript_dicts_from_playlist_id(cache_dir, fs, dirs, tube, listing))

RECURSIVE StrJoin(_, _)
\* sep.join(lines)
StrJoin(sep, lines) ==
    IF Len(lines) = 0 THEN ""
    ELSE IF Len(lines) = 1 THEN lines[1]
    ELSE lines[1] \o sep \o StrJoin(sep, Tail(lines))

\* transcript_html_from_playlist(playlist_id, sep); lines keeps what
\* transcript_html_lines_from_playlist_id gave
transcript_html_from_playlist(cache_dir, fs, dirs, tube, listing, sep) ==
    LET Joined(lines) ==
            [out |-> IF Raised(lines.out) THEN lines.out
                     ELSE Return(StrJoin(sep, lines.out[2])),
             fs |-> lines.fs, trace |-> lines.trace, dicts |-> lines.dicts,
             lines |-> lines.out]
    IN  Joined(transcript_html_lines_from_playlist_id(cache_dir, fs, dirs, tube, listing))

(***************************************************************************)
(* The state: the scraper's cache_dir, the directories and files on disk,  *)
(* what the transcript API answers for each video right now, and the call  *)
(* made last with what it did; runs holds the reports that are being made  *)
(* step by step, one per process.                                          *)
(***************************************************************************)
VARIABLES cache_dir, dirs, fs, tube, last, runs

vars == <<cache_dir, dirs, fs, tube, last, runs>>

\* no call is under way or waiting to be looked at
Idle ==
    [op |-> "idle", args |-> <<>>, out |-> Return(PyNone), trace |-> <<>>,
     lines |-> Return(<<>>), dicts |-> <<>>]

\* the record of a call that has ended
Call(op, args, effect) ==
    [op |-> op, args |-> args, out |-> effect.out, trace |-> effect.trace,
     lines |-> Return(<<>>), dicts |-> <<>>]

CachePath(v) == CacheDirName \o "/" \o v \o ".json"

\* the cache files a directory may hold before the scraper is constructed
InitialFileSystems ==
    { [p \in {CachePath(v) : v \in {w \in VideoIds : c[w] # "absent"}} |->
          LET v == CHOOSE w \in VideoIds : CachePath(w) = p
          IN  CASE c[v] = "empty" -> JObject(<<>>)
                [] c[v] = "null"  -> JNull
                [] OTHER          -> JsonDump(VideoRecord(v, OldTitle, OldTranscript))]
      : c \in [VideoIds -> {"absent", "empty", "null", "old"}] }

\* __init__(api_key_dir, cache_dir): cache_dir is kept as given; the directory
\* may or may not exist, and only an existing one holds files
Init ==
    /\ cache_dir \in CacheDirs
    /\ dirs \in {{}, {CacheDirName}}
    /\ fs \in IF CacheDirName \in dirs THEN InitialFileSystems ELSE {<<>>}
    /\ tube \in Tubes
    /\ last = Idle
    /\ runs = <<>>

\* the inputs of the direct calls
LinkVideoIds == {PyStr("abc"), PyStr("v1")}
LinkTexts == {PyStr("hello")}
LinkStarts == {PyFloat(0), PyFloat(4), PyFloat(755), PyFloat(759), PyFloat(780)}
Separators == {"\n"}
WritableRecords(v) ==
    { VideoRecord(v, item.title, t) :
        item \in {it \in PlaylistItems : it.videoId = v},
        t \in {LiveTranscript, PyList(<<>>)} }

\* scraper.transcript_html_from_playlist(playlist_id, sep)
TranscriptHtmlFromPlaylist(listing, sep) ==
    /\ last.op = "idle"
    /\ \E html \in {transcript_html_from_playlist(cache_dir, fs, dirs, tube, listing, sep)} :
           /\ fs' = html.fs
           /\ last' = [op |-> "transcript_html_from_playlist", args |-> <<listing, sep>>,
                       out |-> html.out, trace |-> html.trace,
                       lines |-> html.lines, dicts |-> html.dicts]
    /\ UNCHANGED <<cache_dir, dirs, tube, runs>>

\* scraper.transcript_dict_from_playlist_item(playlist_item)
TranscriptDictFromPlaylistItem(playlist_item) ==
    /\ last.op = "idle"
    /\ \E e \in {transcript_dict_from_playlist_item(cache_dir, fs, dirs, tube, playlist_item)} :
           /\ fs' = e.fs
           /\ last' = Call("transcript_dict_from_playlist_item", <<playlist_item>>, e)
    /\ UNCHANGED <<cache_dir, dirs, tube, runs>>

\* YoutubeScraper.get_transcript(video_id)
GetTranscript(video_id) ==
    /\ last.op = "idle"
    /\ last' = Call("get_transcript", <<video_id>>, get_transcript(tube, video_id))
    /\ UNCHANGED <<cache_dir, dirs, fs, tube, runs>>

\* scraper.cache_file_dir(file_name, ext)
CacheFileDir(file_name, ext) ==
    /\ last.op = "idle"
    /\ last' = Call("cache_file_dir", <<file_name, ext>>,
                    Effect(cache_file_dir(cache_dir, file_name, ext), fs, <<>>))
    /\ UNCHANGED <<cache_dir, dirs, fs, tube, runs>>

\* scraper.read_json_from_cache(file_name)
ReadJsonFromCache(file_name) ==
    /\ last.op = "idle"
    /\ last' = Call("read_json_from_cache", <<file_name>>,
                    read_json_from_cache(cache_dir, fs, file_name))
    /\ UNCHANGED <<cache_dir, dirs, fs, tube, runs>>

\* scraper.write_json_to_cache(d, file_name)
WriteJsonToCache(d, file_name) ==
    /\ last.op = "idle"
    /\ \E e \in {write_json_to_cache(cache_dir, fs, dirs, d, file_name)} :
           /\ fs' = e.fs
           /\ last' = Call("write_json_to_cache", <<d, file_name>>, e)
    /\ UNCHANGED <<cache_dir, dirs, tube, runs>>

\* YoutubeScraper.transcript_line_to_link(video_id, text, start)
TranscriptLineToLink(video_id, text, start) ==
    /\ last.op = "idle"
    /\ last' = Call("transcript_line_to_link", <<video_id, text, start>>,
                    Effect(Return(PyStr(transcript_line_to_link(video_id, text, start))),
                           fs, <<>>))
    /\ UNCHANGED <<cache_dir, dirs, fs, tube, runs>>

\* the caller takes the result of the call; the next call can start
CallerResumes ==
    /\ last.op # "idle"
    /\ last' = Idle
    /\ UNCHANGED <<cache_dir, dirs, fs, tube, runs>>

\* between calls, a video's captions are disabled, enabled or become unavailable
UpstreamChanges(v, r) ==
    /\ last.op = "idle"
    /\ tube[v] # r
    /\ tube' = [tube EXCEPT ![v] = r]
    /\ UNCHANGED <<cache_dir, dirs, fs, last, runs>>

Next ==
    \/ \E listing \in ListingResponses, sep \in Separators :
           TranscriptHtmlFromPlaylist(listing, sep)
    \/ \E playlist_item \in PlaylistItems : TranscriptDictFromPlaylistItem(playlist_item)
    \/ \E video_id \in VideoIds : GetTranscript(video_id)
    \/ \E file_name \in VideoIds, ext \in {"", ".json"} : CacheFileDir(file_name, ext)
    \/ \E file_name \in VideoIds : ReadJsonFromCache(file_name)
    \/ \E file_name \in VideoIds : \E d \in WritableRecords(file_name) :
           WriteJsonToCache(d, file_name)
    \/ \E video_id \in LinkVideoIds, text \in LinkTexts, start \in LinkStarts :
           TranscriptLineToLink(video_id, text, start)
    \/ CallerResumes
    \/ \E v \in VideoIds, r \in TranscriptResponses : UpstreamChanges(v, r)

Spec == Init /\ [][Next]_vars

(***************************************************************************)
(* A report made step by step.  Each process is one interpreter running    *)
(* transcript_html_from_playlist on a scraper of its own; the processes    *)
(* share cache_dir, the file system and the transcript collaborator.  A    *)
(* step is one call of a collaborator or of the file system:               *)
(*   start  -> the playlist is listed                        (line 91)     *)
(*   read   -> isfile and json.load of the entry's file      (line 174)    *)
(*   fetch  -> the transcript collaborator is called         (line 179)    *)
(*   open   -> open(path, 'w') empties the file              (line 158)    *)
(*   dump   -> json.dump and the close write the text        (line 159)    *)
(*   render -> the lines are made and joined                 (lines 60-74, *)
(*             44-46)                                                      *)
(* and a run ends returned or raised.                                      *)
(***************************************************************************)
\* the most entries of the playlist two racing processes are given
MaxRacePlaylist == 1

Procs == {"p1", "p2"}

\* a process about to call transcript_html_from_playlist(playlist_id, sep)
StartRun(listing, sep) ==
    [pc |-> "start", listing |-> listing, sep |-> sep, items |-> <<>>, i |-> 1,
     dicts |-> <<>>, d |-> PyNone, trace |-> <<>>, out |-> Return(PyNone)]

\* an exception leaves every frame up to the caller of the report
Aborted(run, out, events) ==
    [run EXCEPT !.pc = "raised", !.out = out, !.trace = run.trace \o events]

\* a loop that is left after its first turn
NextEntryReturnsEarly(run, this_dict, events) ==
    [run EXCEPT !.dicts = Append(run.dicts, this_dict),
                !.i = run.i + 1,
                !.d = PyNone,
                !.pc = "render",
                !.trace = run.trace \o events]

\* dicts.append(this_dict) and the next turn of the for loop (lines 93-97)
NextEntry(run, this_dict, events) ==
    [run EXCEPT !.dicts = Append(run.dicts, this_dict),
                !.i = run.i + 1,
                !.d = PyNone,
                !.pc = IF run.i + 1 > Len(run.items) THEN "render" ELSE "read",
                !.trace = run.trace \o events]

\* a build that returns the dictionary without writing it
AfterFetchNeverWrites(self_cache_dir, run, d, events) == NextEntry(run, d, events)

\* lines 184-187: the built dictionary is written when cache_dir is truthy and
\* returned
AfterFetch(self_cache_dir, run, d, events) ==
    IF Truthy(self_cache_dir)
    THEN [run EXCEPT !.pc = "open", !.d = d, !.trace = run.trace \o events]
    ELSE NextEntry(run, d, events)

\* the playlist entry a run is at
Entry(run) == run.items[run.i]

\* line 91: the playlist is listed
RunList(p) ==
    /\ runs[p].pc = "start"
    /\ \E playlist_items \in {playlist_items_from_playlist_id(runs[p].listing)} :
          runs' = [runs EXCEPT ![p] =
              IF Raised(playlist_items.out)
              THEN Aborted(runs[p], playlist_items.out, playlist_items.trace)
              ELSE [runs[p] EXCEPT
                       !.items = playlist_items.out[2],
                       !.pc = IF Len(playlist_items.out[2]) = 0 THEN "render" ELSE "read",
                       !.trace = runs[p].trace \o playlist_items.trace]]
    /\ UNCHANGED <<cache_dir, dirs, fs, tube, last>>

\* a build that looks the file up and fetches the transcript whatever it read
RunReadAlwaysFetches(p) ==
    /\ runs[p].pc = "read"
    /\ \E local_json \in {read_json_from_cache(cache_dir, fs, Entry(runs[p]).videoId)} :
          runs' = [runs EXCEPT ![p] =
              IF Raised(local_json.out)
              THEN Aborted(runs[p], local_json.out, local_json.trace)
              ELSE [runs[p] EXCEPT !.pc = "fetch",
                                   !.trace = runs[p].trace \o local_json.trace]]
    /\ UNCHANGED <<cache_dir, dirs, fs, tube, last>>

\* line 174: the entry's file is looked up and read
RunRead(p) ==
    /\ runs[p].pc = "read"
    /\ \E local_json \in {read_json_from_cache(cache_dir, fs, Entry(runs[p]).videoId)} :
          runs' = [runs EXCEPT ![p] =
              IF Raised(local_json.out)
              THEN Aborted(runs[p], local_json.out, local_json.trace)
              ELSE IF Truthy(local_json.out[2])
              THEN NextEntry(runs[p], local_json.out[2], local_json.trace)
              ELSE [runs[p] EXCEPT !.pc = "fetch",
                                   !.trace = runs[p].trace \o local_json.trace]]
    /\ UNCHANGED <<cache_dir, dirs, fs, tube, last>>

\* a build that takes a failed fetch for an empty transcript and caches it
RunFetchCachesFailure(p) ==
    /\ runs[p].pc = "fetch"
    /\ \E transcript \in {get_transcript(tube, Entry(runs[p]).videoId)} :
          runs' = [runs EXCEPT ![p] =
              AfterFetch(cache_dir, runs[p],
                         VideoRecord(Entry(runs[p]).videoId, Entry(runs[p]).title,
                                     IF Raised(transcript.out) THEN PyList(<<>>)
                                     ELSE transcript.out[2]),
                         transcript.trace)]
    /\ UNCHANGED <<cache_dir, dirs, fs, tube, last>>

\* lines 177-182: the transcript is fetched and the dictionary built
RunFetch(p) ==
    /\ runs[p].pc = "fetch"
    /\ \E transcript \in {get_transcript(tube, Entry(runs[p]).videoId)} :
          runs' = [runs EXCEPT ![p] =
              IF Raised(transcript.out)
              THEN Aborted(runs[p], transcript.out, transcript.trace)
              ELSE AfterFetch(cache_dir, runs[p],
                              VideoRecord(Entry(runs[p]).videoId, Entry(runs[p]).title,
                                          transcript.out[2]),
                              transcript.trace)]
    /\ UNCHANGED <<cache_dir, dirs, fs, tube, last>>

\* lines 155-158: the path is made and the file opened for writing, which
\* fails when the directory is missing and empties the file otherwise
RunOpen(p) ==
    /\ runs[p].pc = "open"
    /\ \E chk \in {check_cache_dir_defined(cache_dir)},
          path \in {cache_file_dir(cache_dir, Entry(runs[p]).videoId, ".json")} :
          IF Raised(chk) \/ Raised(path)
          THEN /\ runs' = [runs EXCEPT ![p] =
                              Aborted(runs[p], IF Raised(chk) THEN chk ELSE path, <<>>)]
               /\ fs' = fs
          ELSE IF OsPathDirname(path[2][2]) \notin dirs
          THEN /\ runs' = [runs EXCEPT ![p] =
                              Aborted(runs[p], Raise("FileNotFoundError"),
                                      << <<"open_w", path[2][2], FALSE>> >>)]
               /\ fs' = fs
          ELSE /\ runs' = [runs EXCEPT ![p] =
                              [runs[p] EXCEPT !.pc = "dump",
                                  !.trace = runs[p].trace \o
                                            << <<"open_w", path[2][2], TRUE>> >>]]
               /\ fs' = FsTruncate(fs, path[2][2])
    /\ UNCHANGED <<cache_dir, dirs, tube, last>>

\* line 159 and the end of the with block: the text of the dictionary is
\* written from the start of the file
RunDump(p) ==
    /\ runs[p].pc = "dump"
    /\ \E path \in {cache_file_dir(cache_dir, Entry(runs[p]).videoId, ".json")[2][2]} :
          /\ fs' = FsOverlay(fs, path, JsonDump(runs[p].d))
          /\ runs' = [runs EXCEPT ![p] =
                         NextEntry(runs[p], runs[p].d,
                                   << <<"write", path, JsonDump(runs[p].d)>> >>)]
    /\ UNCHANGED <<cache_dir, dirs, tube, last>>

\* lines 60-74 and 44-46: the lines of every dictionary, joined
RunRender(p) ==
    /\ runs[p].pc = "render"
    /\ \E lines \in {lines_loop(runs[p].dicts, 1, <<>>)} :
          runs' = [runs EXCEPT ![p] =
              IF Raised(lines) THEN Aborted(runs[p], lines, <<>>)
              ELSE [runs[p] EXCEPT !.pc = "returned",
                                   !.out = Return(StrJoin(runs[p].sep, lines[2]))]]
    /\ UNCHANGED <<cache_dir, dirs, fs, tube, last>>

\* the next step of a process
RunStep(p) ==
    \/ RunList(p)
    \/ RunRead(p)
    \/ RunFetch(p)
    \/ RunOpen(p)
    \/ RunDump(p)
    \/ RunRender(p)

\* the cache files found by a run: none, or a record or a null kept for v1
RunFileSystems ==
    { f \in InitialFileSystems :
         /\ DOMAIN f \subseteq {CachePath("v1")}
         /\ \A q \in DOMAIN f : f[q] # JObject(<<>>) }

\* the processes procs are each about to make the report of one playlist of
\* at most n entries, whose listing may fail for any of them
InitRuns(procs, n) ==
    /\ cache_dir \in CacheDirs
    /\ dirs \in {{}, {CacheDirName}}
    /\ fs \in IF CacheDirName \in dirs THEN RunFileSystems ELSE {<<>>}
    /\ tube \in Tubes
    /\ last = Idle
    /\ \E playlist_items \in SeqsUpTo(PlaylistItems, n) :
          runs \in [procs -> {StartRun(listing, sep) :
                                 listing \in {Return(playlist_items),
                                              Raise("PyYouTubeException")},
                                 sep \in Separators}]

\* the steps of the processes, the collaborator answering each video the same
\* way throughout
NextRun ==
    \/ \E p \in DOMAIN runs : RunList(p)
    \/ \E p \in DOMAIN runs : RunRead(p)
    \/ \E p \in DOMAIN runs : RunFetch(p)
    \/ \E p \in DOMAIN runs : RunOpen(p)
    \/ \E p \in DOMAIN runs : RunDump(p)
    \/ \E p \in DOMAIN runs : RunRender(p)

\* one process makes one report
InitRun == InitRuns({"p1"}, MaxPlaylist)

SpecRun == InitRun /\ [][NextRun]_vars

\* the interpreter goes on with the run as long as it has a step to take
FairSpecRun == SpecRun /\ WF_vars(RunStep("p1"))

\* two processes make the report of the same playlist at the same time
InitRace == InitRuns(Procs, MaxRacePlaylist)

\* the steps of the processes, and the collaborator's answers changing between
\* them
NextRace ==
    \/ \E p \in DOMAIN runs : RunList(p)
    \/ \E p \in DOMAIN runs : RunRead(p)
    \/ \E p \in DOMAIN runs : RunFetch(p)
    \/ \E p \in DOMAIN runs : RunOpen(p)
    \/ \E p \in DOMAIN runs : RunDump(p)
    \/ \E p \in DOMAIN runs : RunRender(p)
    \/ \E v \in VideoIds, r \in TranscriptResponses : UpstreamChanges(v, r)

SpecRace == InitRace /\ [][NextRace]_vars

(***************************************************************************)
(* What the claims speak of.                                               *)
(***************************************************************************)
\* the calls of the transcript collaborator in a trace
CollaboratorCalls(trace) == SelectSeq(trace, LAMBDA ev : ev[1] = "get_transcript")

\* the accesses of a trace that open a file for writing or write it
FileWrites(trace) == SelectSeq(trace, LAMBDA ev : ev[1] \in {"open_w", "write"})

\* the last call built the record of a playlist item
BuiltRecord == last.op = "transcript_dict_from_playlist_item"

\* <cache_dir>/<video_id>.json
KeyPath(video_id) == cache_dir[2] \o "/" \o video_id \o ".json"

\* C1: with no cache directory configured, building the record of a playlist
\* item succeeds, accesses no file for writing and calls the transcript
\* collaborator (once per call).
C1_NoCacheDirBuildSucceeds ==
    (BuiltRecord /\ ~Truthy(cache_dir)) =>
        /\ Returned(last.out)
        /\ FileWrites(last.trace) = <<>>
        /\ Len(CollaboratorCalls(last.trace)) = 1

\* C2: with caching enabled and a cache file at the item's key, building the
\* record returns the parsed content of the file whatever JSON it holds, calls
\* no collaborator and writes no file.
C2_ExistingFileAlwaysReturned ==
    (/\ BuiltRecord /\ Truthy(cache_dir)
     /\ Len(last.trace) > 0 /\ last.trace[1][1] = "isfile" /\ last.trace[1][3]) =>
        /\ Len(last.trace) = 2 /\ last.trace[2][1] = "read"
        /\ last.out = Return(JsonLoad(last.trace[2][3]))
        /\ CollaboratorCalls(last.trace) = <<>>
        /\ FileWrites(last.trace) = <<>>

\* C3: with caching enabled, after a successful build of an item a second build
\* of the same item returns the identical record whatever the collaborator
\* would answer by then, without calling it and without writing the cache; the
\* two builds together call the collaborator at most once.
C3_SecondBuildIsPureCacheHit ==
    (BuiltRecord /\ Truthy(cache_dir) /\ Returned(last.out)) =>
        \A later \in Tubes :
            \A second \in {transcript_dict_from_playlist_item(
                               cache_dir, fs, dirs, later, last.args[1])} :
                /\ second.out = last.out
                /\ second.fs = fs
                /\ FileWrites(second.trace) = <<>>
                /\ CollaboratorCalls(second.trace) = <<>>
                /\ Len(CollaboratorCalls(last.trace))
                       + Len(CollaboratorCalls(second.trace)) <= 1

\* a first build that missed the cache, fetched the transcript and returned
C3_Witness ==
    /\ BuiltRecord /\ Truthy(cache_dir) /\ Returned(last.out)
    /\ Len(CollaboratorCalls(last.trace)) = 1

\* C4: on a cache miss with caching enabled, a build that returns has returned
\* exactly {video_id, video_title, transcript} of the item and of what the fetch
\* gave (the empty list when captions are disabled), and the file at the item's
\* key holds that record.
C4_MissBuildsAndPersistsRecord ==
    (/\ BuiltRecord /\ Truthy(cache_dir) /\ Returned(last.out)
     /\ Len(last.trace) > 0 /\ last.trace[1][1] = "isfile" /\ ~last.trace[1][3]) =>
        /\ Len(last.trace) >= 2
        /\ last.trace[2][1] = "get_transcript"
        /\ last.trace[2][2] = last.args[1].videoId
        /\ \A fetched \in {IF Raised(last.trace[2][3]) THEN PyList(<<>>)
                           ELSE last.trace[2][3][2]} :
              \A record \in {PyDict(<< <<"video_id", PyStr(last.args[1].videoId)>>,
                                       <<"video_title", PyStr(last.args[1].title)>>,
                                       <<"transcript", fetched>> >>)} :
                 /\ Raised(last.trace[2][3]) => last.trace[2][3][2] = "TranscriptsDisabled"
                 /\ last.out = Return(record)
                 /\ IsFile(fs, KeyPath(last.args[1].videoId))
                 /\ JsonLoad(fs[KeyPath(last.args[1].videoId)]) = record

\* a miss on a video whose captions are disabled: an empty transcript is built
C4_Witness ==
    /\ BuiltRecord /\ Truthy(cache_dir) /\ Returned(last.out)
    /\ Len(last.trace) >= 2 /\ last.trace[1][1] = "isfile" /\ ~last.trace[1][3]
    /\ last.trace[2][1] = "get_transcript"
    /\ last.trace[2][3] = Raise("TranscriptsDisabled")

MadeReport == last.op = "transcript_html_from_playlist"

\* a collaborator call that failed with anything but TranscriptsDisabled
FailedCall(ev) ==
    ev[1] = "get_transcript" /\ Raised(ev[3]) /\ ev[3][2] # "TranscriptsDisabled"

\* C6: when the listing API fails, or the transcript collaborator fails for an
\* entry with anything but disabled captions, the report raises that error:
\* no lines and no records are returned, and the failing call is the last
\* thing the run did (no retry, no later entry).
C6_FailureAbortsWholeReport ==
    MadeReport =>
        /\ Raised(last.args[1]) =>
              /\ last.out = last.args[1]
              /\ last.lines = last.args[1]
              /\ last.dicts = <<>>
              /\ Len(last.trace) = 1
        /\ \A k \in 1..Len(last.trace) :
              FailedCall(last.trace[k]) =>
                  /\ k = Len(last.trace)
                  /\ last.out = last.trace[k][3]
                  /\ last.lines = last.trace[k][3]
                  /\ last.dicts = <<>>

\* a report whose first entry was built and written, and whose second failed
C6_Witness ==
    /\ MadeReport /\ Returned(last.args[1]) /\ Len(last.args[1][2]) = 2
    /\ FileWrites(last.trace) # <<>>
    /\ FailedCall(last.trace[Len(last.trace)])
    /\ last.trace[Len(last.trace)][2] = last.args[1][2][2].videoId
    /\ Raised(last.out)

\* the field of an info dictionary
Field(d, key) == Subscript(d, key)[2]

RECURSIVE LinesBefore(_, _)
\* the lines the records before the i-th account for: a heading and one line
\* per caption line each
LinesBefore(dicts, i) ==
    IF i <= 1 THEN 0
    ELSE LinesBefore(dicts, i - 1) + 1 + Len(Field(dicts[i - 1], "transcript")[2])

\* C7: the lines of a report are, for each entry in playlist order, one <h1>
\* heading with the record's title and then one anchor per caption line of the
\* record, in order, and nothing else; there are as many headings as entries,
\* and an entry whose captions were found disabled has a heading and no anchor.
C7_ReportLinesFollowPlaylist ==
    (MadeReport /\ Returned(last.lines)) =>
        \A lines \in {last.lines[2]} :
            /\ Len(last.dicts) = Len(last.args[1][2])
            /\ Len(lines) = LinesBefore(last.dicts, Len(last.dicts) + 1)
            /\ Cardinality({k \in 1..Len(lines) : SubSeq(lines[k], 1, 4) = "<h1>"})
                   = Len(last.args[1][2])
            /\ \A i \in 1..Len(last.dicts) :
                  \A first \in {LinesBefore(last.dicts, i) + 1} :
                      /\ Field(last.dicts[i], "video_id") = PyStr(last.args[1][2][i].videoId)
                      /\ lines[first] =
                             "<h1>" \o Field(last.dicts[i], "video_title")[2] \o "</h1>"
                      /\ \A j \in 1..Len(Field(last.dicts[i], "transcript")[2]) :
                            lines[first + j] =
                                transcript_line_to_link(
                                    Field(last.dicts[i], "video_id"),
                                    Field(Field(last.dicts[i], "transcript")[2][j], "text"),
                                    Field(Field(last.dicts[i], "transcript")[2][j], "start"))
                      /\ (\E k \in 1..Len(last.trace) :
                              /\ last.trace[k][1] = "get_transcript"
                              /\ last.trace[k][2] = last.args[1][2][i].videoId
                              /\ last.trace[k][3] = Raise("TranscriptsDisabled"))
                            => Len(Field(last.dicts[i], "transcript")[2]) = 0

\* two entries, the first with two caption lines, the second with captions
\* disabled: two headings, two anchors under the first, none under the second
C7_Witness ==
    /\ MadeReport
    /\ last.lines = Return(<< "<h1>Intro</h1>",
                              "<a href=\"https://youtu.be/v1?t=75\">hello</a>",
                              "<a href=\"https://youtu.be/v1?t=78\">world</a>",
                              "<h1>Talk</h1>" >>)
    /\ \E k \in 1..Len(last.trace) :
          /\ last.trace[k][1] = "get_transcript"
          /\ last.trace[k][3] = Raise("TranscriptsDisabled")

\* C8: with a cache directory configured, a record written under a video id is
\* read back under that id equal in every field; the read of an id with no
\* file returns the miss value None and raises nothing.
C8_CacheRoundTrip ==
    /\ (last.op = "write_json_to_cache" /\ Returned(last.out)) =>
          \A back \in {read_json_from_cache(cache_dir, fs, last.args[2])} :
              /\ Returned(back.out)
              /\ \A key \in {"video_id", "video_title", "transcript"} :
                    Subscript(back.out[2], key) = Subscript(last.args[1], key)
              /\ back.out[2] = last.args[1]
    /\ (/\ last.op = "read_json_from_cache" /\ Truthy(cache_dir)
        /\ ~IsFile(fs, KeyPath(last.args[1]))) =>
          last.out = Return(PyNone)

\* a record with captions has been written
C8_Witness ==
    /\ last.op = "write_json_to_cache" /\ Returned(last.out)
    /\ Field(last.args[1], "transcript") = LiveTranscript

\* C9: the anchor of a caption line {video_id, text, start} targets
\* https://youtu.be/<video_id>?t=<t> with t the whole seconds of start, cut
\* down (t <= start < t + 1) and never rounded up, and shows the caption text.
C9_LinkCutsToWholeSeconds ==
    last.op = "transcript_line_to_link" =>
        \E t \in 0..200 :
            /\ 10 * t <= last.args[3][2]
            /\ last.args[3][2] < 10 * (t + 1)
            /\ last.out = Return(PyStr(
                   "<a href=\"https://youtu.be/" \o last.args[1][2] \o "?t="
                       \o ToString(t) \o "\">" \o last.args[2][2] \o "</a>"))

\* {video_id = "abc", text = "hello", start = 75.9} gives t=75
C9_Witness ==
    /\ last.op = "transcript_line_to_link"
    /\ last.args = <<PyStr("abc"), PyStr("hello"), PyFloat(759)>>
    /\ last.out = Return(PyStr("<a href=\"https://youtu.be/abc?t=75\">hello</a>"))

\* the cache operations
CacheOperations == {"cache_file_dir", "read_json_from_cache", "write_json_to_cache"}

\* C10: a cache operation called while no cache directory is configured raises
\* the configuration error (ValueError) at once: it accesses no file and leaves
\* every file as it was.
C10_CacheOperationNeedsCacheDir ==
    [][(last'.op \in CacheOperations /\ last.op = "idle" /\ ~Truthy(cache_dir)) =>
          /\ last'.out = Raise("ValueError")
          /\ last'.trace = <<>>
          /\ fs' = fs]_vars

\* a write attempted on a scraper constructed without cache_dir
C10_Witness ==
    /\ last.op = "write_json_to_cache"
    /\ cache_dir = PyNone
    /\ last.out = Raise("ValueError")

\* C11: get_transcript returns an empty list whenever no transcript can be found
\* for the video: when the collaborator reports TranscriptsDisabled and when it
\* reports NoTranscriptFound alike.
C11_NoTranscriptBecomesEmpty ==
    (/\ last.op = "get_transcript"
     /\ tube[last.args[1]] \in {Raise("TranscriptsDisabled"), Raise("NoTranscriptFound")}) =>
        last.out = Return(PyList(<<>>))

\* the positions of a trace where a cache file is looked up: one for each entry
\* whose turn of the loop has begun
Lookups(trace) == {k \in 1..Len(trace) : trace[k][1] = "isfile"}

\* the entry whose turn position n of a trace belongs to: the number of lookups
\* up to n
TurnOf(trace, n) == Cardinality({k \in Lookups(trace) : k <= n})

\* the last position of the turn that begins at lookup k
TurnEnd(trace, k) ==
    IF \E k2 \in Lookups(trace) : k2 > k
    THEN (CHOOSE k2 \in Lookups(trace) : k2 > k /\ \A k3 \in Lookups(trace) : k3 > k => k2 <= k3) - 1
    ELSE Len(trace)

\* the turn that begins at lookup k of the run has its record: read from the
\* cache, or fetched and, after the fetch, written to the entry's file
TurnComplete(run, k) ==
    LET j   == TurnOf(run.trace, k)
        end == TurnEnd(run.trace, k)
        HasFetch == \E n \in k..end : run.trace[n][1] = "get_transcript"
    IN  /\ j <= Len(run.dicts)
        /\ end > k
        /\ IF HasFetch
           THEN /\ end >= k + 3
                /\ run.trace[end - 2][1] = "get_transcript"
                /\ run.trace[end - 1] = <<"open_w", run.trace[k][2], TRUE>>
                /\ run.trace[end] = <<"write", run.trace[k][2], JsonDump(run.dicts[j])>>
           ELSE /\ end = k + 1
                /\ run.trace[end][1] = "read"
                /\ JsonLoad(run.trace[end][3]) = run.dicts[j]
                /\ Truthy(run.dicts[j])

\* C12: within one run the entries are processed one after another in playlist
\* order: the n-th lookup is that of the n-th entry, every read, fetch and write
\* is that of the entry looked up last, each entry has at most one fetch, and
\* when the turn of the next entry begins the record of the entry before is
\* obtained and, if it was fetched, written to the cache.
C12_EntriesOneAfterAnother ==
    \A p \in DOMAIN runs :
        LET run == runs[p]
            tr  == run.trace
        IN  /\ \A k \in Lookups(tr) :
                  /\ TurnOf(tr, k) <= Len(run.items)
                  /\ tr[k][2] = KeyPath(run.items[TurnOf(tr, k)].videoId)
                  /\ TurnEnd(tr, k) < Len(tr) => TurnComplete(run, k)
                  /\ Cardinality({n \in k..TurnEnd(tr, k) : tr[n][1] = "get_transcript"}) <= 1
            /\ \A n \in 1..Len(tr) :
                  /\ tr[n][1] \in {"read", "open_w", "write"} =>
                        /\ TurnOf(tr, n) >= 1
                        /\ tr[n][2] = KeyPath(run.items[TurnOf(tr, n)].videoId)
                  /\ tr[n][1] = "get_transcript" =>
                        /\ TurnOf(tr, n) >= 1
                        /\ tr[n][2] = run.items[TurnOf(tr, n)].videoId
            /\ run.pc \in {"read", "fetch", "open", "dump"} =>
                  /\ run.i <= Len(run.items)
                  /\ Len(run.dicts) = run.i - 1
                  /\ TurnOf(tr, Len(tr)) = IF run.pc = "read" THEN run.i - 1 ELSE run.i
            /\ run.pc = "returned" => Len(run.dicts) = Len(run.items)

\* a run over two videos that fetched and wrote the first, then fetched and
\* wrote the second, and returned
C12_Witness ==
    \E p \in DOMAIN runs :
        /\ runs[p].pc = "returned"
        /\ Len(runs[p].items) = 2
        /\ runs[p].items[1].videoId # runs[p].items[2].videoId
        /\ Len(CollaboratorCalls(runs[p].trace)) = 2
        /\ Len(FileWrites(runs[p].trace)) = 4

\* the positions of a trace where a file is looked up, read, opened or written
FileEvents(trace) ==
    {n \in 1..Len(trace) : trace[n][1] \in {"isfile", "read", "open_w", "write"}}

\* C13: in one run over any playlist, repeated videos included, each cache file
\* is opened for writing and written at most once, a file is written only in
\* the turn of an entry whose video id names it and with a record of that video
\* id, and the turns of entries with distinct video ids touch distinct paths.
C13_OneWriterPerFile ==
    \A p \in DOMAIN runs :
        LET run == runs[p]
            tr  == run.trace
        IN  /\ \A n, m \in 1..Len(tr) :
                  (/\ tr[n][1] \in {"open_w", "write"}
                   /\ tr[m][1] = tr[n][1]
                   /\ tr[m][2] = tr[n][2]) => n = m
            /\ \A n \in 1..Len(tr) :
                  tr[n][1] = "write" =>
                      \E v \in VideoIds :
                          /\ tr[n][2] = KeyPath(v)
                          /\ run.items[TurnOf(tr, n)].videoId = v
                          /\ Field(JsonLoad(tr[n][3]), "video_id") = PyStr(v)
            /\ \A n, m \in FileEvents(tr) :
                  run.items[TurnOf(tr, n)].videoId # run.items[TurnOf(tr, m)].videoId
                      => tr[n][2] # tr[m][2]

\* a run over a playlist that names the same video twice: the first turn wrote
\* the file, the second read it, and the run returned
C13_Witness ==
    \E p \in DOMAIN runs :
        /\ runs[p].pc = "returned"
        /\ Len(runs[p].items) = 2
        /\ runs[p].items[1].videoId = runs[p].items[2].videoId
        /\ Len(FileWrites(runs[p].trace)) = 2
        /\ runs[p].trace[Len(runs[p].trace)][1] = "read"

\* every process has returned or raised
AllRunsEnded == \A p \in DOMAIN runs : runs[p].pc \in {"returned", "raised"}

\* the texts the processes wrote to a path
WrittenTo(path) ==
    UNION {{runs[p].trace[n][3] :
               n \in {m \in 1..Len(runs[p].trace) :
                         runs[p].trace[m][1] = "write" /\ runs[p].trace[m][2] = path}}
           : p \in DOMAIN runs}

\* C14: when two processes make their reports against the same cache directory
\* at the same time, a file they both wrote holds, once both have ended, the
\* complete record one of them wrote (the last writer's), and every record a
\* process obtained is a complete record of its entry's video.
C14_LastWriterWins ==
    /\ AllRunsEnded =>
          \A v \in VideoIds :
              WrittenTo(CachePath(v)) # {} =>
                  /\ IsFile(fs, CachePath(v))
                  /\ fs[CachePath(v)] \in WrittenTo(CachePath(v))
    /\ \A p \in DOMAIN runs : \A j \in 1..Len(runs[p].dicts) :
          /\ runs[p].dicts[j][1] = "dict"
          /\ Field(runs[p].dicts[j], "video_id") = PyStr(runs[p].items[j].videoId)

\* the run of a process has ended
RunEnded(p) == runs[p].pc \in {"returned", "raised"}

\* the report of a run that returned: the joined lines of one dictionary for
\* each entry of the playlist, in order
CoversPlaylist(run) ==
    /\ Len(run.dicts) = Len(run.items)
    /\ \A j \in 1..Len(run.items) :
          Field(run.dicts[j], "video_id") = PyStr(run.items[j].videoId)
    /\ \E lines \in {lines_loop(run.dicts, 1, <<>>)} :
          /\ Returned(lines)
          /\ run.out = Return(StrJoin(run.sep, lines[2]))

\* C15: every report over a finite playlist ends, and ends in exactly one of
\* two ways: it returns the report of every entry, or it raises; until then it
\* always has a next step, and once ended it stays as it ended.
C15_RunEndsReturnedOrRaised ==
    /\ <>(\A p \in DOMAIN runs : RunEnded(p))
    /\ [](\A p \in DOMAIN runs :
             /\ runs[p].pc = "returned" => CoversPlaylist(runs[p])
             /\ runs[p].pc = "raised" => Raised(runs[p].out)
             /\ ~RunEnded(p) => ENABLED RunStep(p))
    /\ [][\A p \in DOMAIN runs : RunEnded(p) => runs'[p] = runs[p]]_vars

\* a run over two entries that returned its report
C15_WitnessReturned ==
    \E p \in DOMAIN runs :
        /\ runs[p].pc = "returned"
        /\ Len(runs[p].items) = 2
        /\ Len(runs[p].dicts) = 2

\* what get_transcript returned to the build, given the collaborator's answer
\* in a trace
ReturnedTranscript(answer) == IF Raised(answer) THEN PyList(<<>>) ELSE answer[2]

\* C16: every cache file the system has written, <cache_dir>/<k>.json, holds
\* one record {video_id, video_title, transcript} whose video_id is k, whose
\* video_title is the title of the playlist entry whose turn wrote it and whose
\* transcript is what the transcript operation returned for k in that turn.
C16_CacheFileHoldsItsRecord ==
    \A p \in DOMAIN runs :
        LET run == runs[p]
            tr  == run.trace
        IN  \A n \in 1..Len(tr) :
                tr[n][1] = "write" =>
                    \E k \in VideoIds :
                        /\ tr[n][2] = KeyPath(k)
                        /\ n >= 3
                        /\ tr[n - 2][1] = "get_transcript"
                        /\ tr[n - 2][2] = k
                        /\ \A record \in
                               {PyDict(<< <<"video_id", PyStr(k)>>,
                                          <<"video_title",
                                            PyStr(run.items[TurnOf(tr, n)].title)>>,
                                          <<"transcript",
                                            ReturnedTranscript(tr[n - 2][3])>> >>)} :
                              /\ tr[n][3] = JsonDump(record)
                              /\ IsFile(fs, KeyPath(k))
                              /\ IsJsonText(fs[KeyPath(k)])
                              /\ JsonLoad(fs[KeyPath(k)]) = record

\* a run wrote the record of v1 under its newer title and that of v2
C16_Witness ==
    \E p \in DOMAIN runs :
        /\ runs[p].pc = "returned"
        /\ Len(runs[p].items) = 2
        /\ runs[p].items[1] = [videoId |-> "v1", title |-> "Intro (HD)"]
        /\ runs[p].items[2].videoId = "v2"
        /\ Len(FileWrites(runs[p].trace)) = 4

\* the collaborator's answer is a failure that get_transcript lets through
FetchFailed(ev) ==
    /\ ev[1] = "get_transcript"
    /\ Raised(ev[3])
    /\ ev[3][2] # "TranscriptsDisabled"

\* the lookup that began the turn position n of a trace belongs to
TurnStart(trace, n) ==
    CHOOSE k \in Lookups(trace) : k <= n /\ \A k2 \in Lookups(trace) : k2 <= n => k2 <= k

\* C17: when the collaborator fails for an entry with anything but disabled
\* captions, the run raises that failure, no file is opened or written after
\* the failed call, the entry's file is as the turn's lookup found it (absent,
\* or with the content read), and a later run over the same playlist calls the
\* collaborator for that video again, whatever it then answers.
C17_FailureIsNotCached ==
    \A p \in DOMAIN runs :
        LET run == runs[p]
            tr  == run.trace
        IN  \A n \in 1..Len(tr) :
                FetchFailed(tr[n]) =>
                    /\ n = Len(tr)
                    /\ run.pc = "raised"
                    /\ run.out = tr[n][3]
                    /\ \A m \in 1..Len(tr) :
                          tr[m][1] \in {"open_w", "write"} => tr[m][2] # KeyPath(tr[n][2])
                    /\ \E k \in {TurnStart(tr, n)} :
                          /\ tr[k][2] = KeyPath(tr[n][2])
                          /\ IsFile(fs, KeyPath(tr[n][2])) = tr[k][3]
                          /\ tr[k][3] => /\ tr[k + 1][1] = "read"
                                         /\ fs[KeyPath(tr[n][2])] = tr[k + 1][3]
                    /\ \A later \in Tubes :
                          \E again \in {transcript_html_from_playlist(
                                            cache_dir, fs, dirs, later, run.listing, run.sep)} :
                              \E m \in 1..Len(again.trace) :
                                  /\ again.trace[m][1] = "get_transcript"
                                  /\ again.trace[m][2] = tr[n][2]

\* the fetch of the second entry failed after the first entry was written, and
\* the second entry's file held a null before
C17_Witness ==
    \E p \in DOMAIN runs :
        /\ runs[p].pc = "raised"
        /\ Len(runs[p].trace) >= 3
        /\ FetchFailed(runs[p].trace[Len(runs[p].trace)])
        /\ runs[p].trace[Len(runs[p].trace) - 1][1] = "read"
        /\ runs[p].trace[Len(runs[p].trace) - 1][3] = JNull
        /\ Len(FileWrites(runs[p].trace)) = 2

\* the file of a video holds a cache entry: a parsed document that the build
\* takes for a record
HoldsRecord(files, video_id) ==
    /\ IsFile(files, KeyPath(video_id))
    /\ IsJsonText(files[KeyPath(video_id)])
    /\ Truthy(JsonLoad(files[KeyPath(video_id)]))

\* C18: with caching enabled, when a run has raised in the turn of entry k, the
\* records of the entries before k are in the cache as the run obtained them,
\* and the report made again over the same playlist, whatever the collaborator
\* then answers, calls the collaborator for entry k, for no entry before k and
\* for no video that has a record in the cache.
C18_RerunResumesAtFailedEntry ==
    \A p \in DOMAIN runs :
        LET run == runs[p]
            tr  == run.trace
            k   == TurnOf(tr, Len(tr))
        IN  (run.pc = "raised" /\ Truthy(cache_dir) /\ k >= 1) =>
                /\ k = run.i
                /\ Len(run.dicts) = k - 1
                /\ \A j \in 1..(k - 1) :
                      /\ HoldsRecord(fs, run.items[j].videoId)
                      /\ JsonLoad(fs[KeyPath(run.items[j].videoId)]) = run.dicts[j]
                /\ \A later \in Tubes :
                      \E again \in {transcript_html_from_playlist(
                                        cache_dir, fs, dirs, later, run.listing, run.sep)} :
                          /\ \A n \in 1..Len(again.trace) :
                                again.trace[n][1] = "get_transcript" =>
                                    /\ TurnOf(again.trace, n) >= k
                                    /\ \A j \in 1..(k - 1) :
                                          run.items[j].videoId # again.trace[n][2]
                                    /\ ~HoldsRecord(fs, again.trace[n][2])
                          /\ \E n \in 1..Len(again.trace) :
                                /\ again.trace[n][1] = "get_transcript"
                                /\ TurnOf(again.trace, n) = k
                                /\ again.trace[n][2] = run.items[k].videoId

\* a run that fetched and wrote its first entry and raised at the fetch of its
\* second
C18_Witness ==
    \E p \in DOMAIN runs :
        /\ runs[p].pc = "raised"
        /\ Truthy(cache_dir)
        /\ runs[p].i = 2
        /\ Len(runs[p].dicts) = 1
        /\ Len(CollaboratorCalls(runs[p].trace)) = 2
        /\ Raised(runs[p].trace[Len(runs[p].trace)][3])

\* the build was made with a cache directory configured that does not exist
BuiltWithoutDirectory ==
    /\ BuiltRecord
    /\ Truthy(cache_dir)
    /\ CacheDirName \notin dirs

\* C19: no step creates the cache directory; a build made with a configured
\* directory that does not exist looks the file up and misses, calls the
\* collaborator, and raises without a record, the directory and the files as
\* they were: the collaborator's failure when it fails with anything but
\* disabled captions, FileNotFoundError from the open for writing otherwise.
C19_MissingDirectoryIsNeverCreated ==
    [][/\ dirs' = dirs
       /\ (BuiltWithoutDirectory' /\ ~BuiltRecord) =>
             /\ fs' = fs
             /\ Raised(last'.out)
             /\ Len(last'.trace) >= 2
             /\ last'.trace[1] = <<"isfile", KeyPath(last'.args[1].videoId), FALSE>>
             /\ last'.trace[2] =
                    <<"get_transcript", last'.args[1].videoId, tube[last'.args[1].videoId]>>
             /\ IF FetchFailed(last'.trace[2])
                THEN /\ Len(last'.trace) = 2
                     /\ last'.out = last'.trace[2][3]
                ELSE /\ Len(last'.trace) = 3
                     /\ last'.trace[3] =
                            <<"open_w", KeyPath(last'.args[1].videoId), FALSE>>
                     /\ last'.out = Raise("FileNotFoundError")]_vars

\* C19 as stated: a build made with a configured directory that does not exist
\* misses, calls the collaborator and then fails on the cache write.
C19_MissingDirectoryFailsOnWrite ==
    BuiltWithoutDirectory =>
        /\ Len(last.trace) = 3
        /\ last.trace[1] = <<"isfile", KeyPath(last.args[1].videoId), FALSE>>
        /\ last.trace[2][1] = "get_transcript"
        /\ last.trace[3] = <<"open_w", KeyPath(last.args[1].videoId), FALSE>>
        /\ last.out = Raise("FileNotFoundError")
        /\ fs = <<>>

\* a build whose fetch gave a transcript and whose open for writing found no
\* directory
C19_Witness ==
    /\ BuiltWithoutDirectory
    /\ last.out = Raise("FileNotFoundError")
    /\ Len(last.trace) = 3
    /\ Returned(last.trace[2][3])

====
